---- MODULE Spec2Model ----
(***************************************************************************)
(* Contact import wizard: src/components/ImportContactsPopup.tsx (variant  *)
(* "popup") and the copy of the wizard embedded in                         *)
(* src/components/ContactsPage.tsx (variant "page").  The store is         *)
(* Firestore: collections contacts, contactFields and users.               *)
(***************************************************************************)
EXTENDS Integers, Sequences, FiniteSets, TLC

\* ------------------------------------------------------------------ bounds
MaxRows == 2            \* rows in an uploaded file
MaxInitialContacts == 2 \* contact documents in the store before the wizard opens
MaxNewFields == 2       \* contactFields documents that can still be created
MaxFaults == 1          \* store operations that throw during one import run
MaxReruns == 1          \* times the wizard goes back from step 3 to run the import again

\* ------------------------------------------------------------- JS strings
StartsWith(s, p) == Len(s) >= Len(p) /\ SubSeq(s, 1, Len(p)) = p

Substring(s, n) == IF n >= Len(s) THEN "" ELSE SubSeq(s, n + 1, Len(s))

RECURSIVE TrimStart(_)
TrimStart(s) ==
  IF Len(s) > 0 /\ SubSeq(s, 1, 1) = " " THEN TrimStart(Substring(s, 1)) ELSE s

RECURSIVE TrimEnd(_)
TrimEnd(s) ==
  IF Len(s) > 0 /\ SubSeq(s, Len(s), Len(s)) = " "
  THEN TrimEnd(IF Len(s) = 1 THEN "" ELSE SubSeq(s, 1, Len(s) - 1))
  ELSE s

Trim(s) == TrimEnd(TrimStart(s))

\* ------------------------------------------- JS objects as finite functions
EmptyDoc == [k \in {} |-> ""]

\* obj[k] = v
Put(obj, k, v) == (k :> v) @@ obj

\* obj.k is truthy: the key is present and its (string) value is not ""
Truthy(obj, k) == k \in DOMAIN obj /\ obj[k] # ""

\* { ...old, ...new }: shallow overwrite, keys of old not in new are kept
Merge(old, new) == new @@ old

Min(S) == CHOOSE x \in S : \A y \in S : x <= y

\* -------------------------------------------------------------- the inputs
\* Column headers of the uploaded file, in file order (Object.keys(fileData[0])).
HeaderSeq == <<"first", "last", "mail", "tel", "agent", "co", "org">>

Headers == {HeaderSeq[i] : i \in 1..Len(HeaderSeq)}

Row(f, l, m, t, a, c, o) ==
  [first |-> f, last |-> l, mail |-> m, tel |-> t, agent |-> a, co |-> c, org |-> o]

\* Rows a parsed file may contain.
RowPool ==
  { Row("Ann", "Lee", "a@x", "111", "u@x", "Acme", "Inc"),
    Row("Bob", "Ray", "b@x", "222", " u@x ", "-", "null"),
    Row("Cy", "Orr", "a@x", "222", "zz@x", "", "undefined"),
    Row("Dee", "Poe", "", "", "", "Acme", ""),
    Row("Eve", "", "c@x", " ", "", "", ""),
    Row("", "-", "null", "undefined", " ", "", "") }

\* String(value).trim() of every cell value a file may hold (Trim, tabulated once).
CellValues == {r[h] : r \in RowPool, h \in Headers}

Trimmed == [s \in CellValues |-> Trim(s)]

RECURSIVE SeqsUpTo(_, _)
SeqsUpTo(S, n) ==
  IF n = 0 THEN {<<>>}
  ELSE LET shorter == SeqsUpTo(S, n - 1)
       IN shorter \cup {Append(s, x) : s \in {t \in shorter : Len(t) = n - 1}, x \in S}

Files == SeqsUpTo(RowPool, MaxRows)

Entry(t, c) == [mappedTo |-> t, confidence |-> c]

CoreMapping(co, org) ==
  [first |-> Entry("firstName", 95), last |-> Entry("lastName", 95),
   mail |-> Entry("email", 98), tel |-> Entry("phone", 90),
   agent |-> Entry("agentUid", 80), co |-> co, org |-> org]

\* Classifier responses.  The popup's prompt offers NEW:<label> targets
\* (ImportContactsPopup.tsx:233); the page's prompt does not
\* (ContactsPage.tsx response grammar).
Proposals(v) ==
  IF v = "popup"
  THEN { [mapping |-> CoreMapping(Entry("NEW:Company", 70), Entry("NEW:Company", 60)),
          unmappedHeaders |-> {}, notes |-> "n"],
         [mapping |-> CoreMapping(Entry("NEW:Company", 70), Entry("NEW:Org", 60)),
          unmappedHeaders |-> {}, notes |-> "n"],
         [mapping |-> CoreMapping(Entry("f1", 75), Entry("unmapped", 30)),
          unmappedHeaders |-> {"org"}, notes |-> "n"] }
  ELSE { [mapping |-> CoreMapping(Entry("f1", 75), Entry("unmapped", 30)),
          unmappedHeaders |-> {"org"}, notes |-> "n"],
         [mapping |-> CoreMapping(Entry("f1", 75), Entry("firstName", 55)),
          unmappedHeaders |-> {}, notes |-> "n"] }

\* Document ids of the contacts collection, in the order the store returns
\* them; addDoc draws an unused one (Firestore auto-ids are random).
ContactIds == 1..(MaxInitialContacts + MaxRows)

FieldIdSeq == <<"f1", "f2", "f3", "f4", "f5", "f6">>

FieldIds == {FieldIdSeq[i] : i \in 1..(1 + MaxNewFields)}

\* Contents of the contacts collection before the wizard opens.
InitialContacts ==
  { EmptyDoc,
    (2 :> [email |-> "a@x", phone |-> "999", firstName |-> "Old", f1 |-> "keep"])
      @@ (3 :> [email |-> "z@x", phone |-> "222", lastName |-> "Zed"]),
    (1 :> [email |-> "a@x", firstName |-> "Dup"])
      @@ (3 :> [email |-> "a@x", phone |-> "111"]) }

InitialFields == ("f1" :> [label |-> "Notes", type |-> "text", core |-> FALSE])

\* Contents of the users collection: doc id -> document.
InitialUsers ==
  { ("U1" :> [name |-> "Agent", email |-> "u@x"]) }

\* Document ids of the users collection, in the order the store returns them.
UserIdSeq == <<"U1", "U2">>

UserPos(u) == CHOOSE i \in 1..Len(UserIdSeq) : UserIdSeq[i] = u

NoContact == 0

\* A nullable value (T | null) is a sequence of length 0 (null) or 1.
Null == <<>>

Some(v) == <<v>>

ZeroStats == [total |-> 0, created |-> 0, merged |-> 0, errors |-> 0]

\* ------------------------------------------------------------------ state
VARIABLES
  variant,        \* "popup" (ImportContactsPopup.tsx) or "page" (ContactsPage.tsx)
  dbContacts,     \* collection contacts: doc id -> attribute map
  dbContactFields,\* collection contactFields: doc id -> {label, type, core}
  dbUsers,        \* collection users: doc id -> {name, email}
  step,           \* useState step: 1 | 2 | 3
  subStep,        \* useState subStep (popup only): upload | loading | review
  error,          \* useState error: string | null
  parsedData,     \* useState parsedData: the parsed rows
  mappingResult,  \* useState mappingResult: MappingResult | null
  importStats,    \* useState importStats
  importing,      \* useState importing
  pc,             \* position of the running handleImport call
  stats,          \* handleImport local: stats
  newFieldsMap,   \* handleImport local: NEW:<label> -> created field id
  fieldPos,       \* handleImport local: position of the field-creation loop
  finalMapping,   \* handleImport local: the mapping used to transform rows
  usersByEmail,   \* handleImport local: email -> user id
  idx,            \* handleImport local: 1-based position of the row loop
  mappedContact,  \* handleImport local: the transformed record of the current row
  existing,       \* handleImport local: id returned by findExistingContact, or NoContact
  issued,         \* the store queries findExistingContact issued for the current row
  lookupThrew,    \* whether a query of the current row's lookup threw
  faults,         \* store operations that threw during the run
  contacts0,      \* the contacts collection when the run started
  fields0,        \* the contactFields collection when the run started
  log,            \* per finished row: what the run did with it
  contactFields,  \* useState contactFields: the field definitions read at file selection
  showNewFieldInput, \* useState showNewFieldInput (popup): header | null
  proposal,       \* the MappingResult the classifier returned last, or null
  lastOp,         \* the event handler invoked last, with its arguments
  chunkSize,      \* handleImport local: the batch size of the row loop
  previousRuns,   \* the import runs the wizard left by "Previous" at step 3
  peer            \* the handleImport call of another wizard on the same store

vars ==
  << variant, dbContacts, dbContactFields, dbUsers, step, subStep, error, parsedData,
     mappingResult, importStats, importing, pc, stats, newFieldsMap, fieldPos,
     finalMapping, usersByEmail, idx, mappedContact, existing, issued, lookupThrew,
     faults, contacts0, fields0, log, contactFields,
     showNewFieldInput, proposal, lastOp, chunkSize, previousRuns, peer >>

storeVars == << dbContacts, dbContactFields, dbUsers >>

runVars ==
  << pc, stats, newFieldsMap, fieldPos, finalMapping, usersByEmail, idx, mappedContact,
     existing, issued, lookupThrew, faults, contacts0, fields0, log,
     chunkSize, previousRuns, peer >>

\* const batchSize = 100 of handleImport.
batchSize == 100

\* The other wizard has not started an import.
NoPeer ==
  [pc |-> "idle", rows |-> <<>>, idx |-> 1, mappedContact |-> EmptyDoc,
   existing |-> NoContact, log |-> <<>>]

\* An invocation of an event handler: its name, the header and the value it
\* was given, and whether it sent a request to /api/map-fields.
Op(name, header, arg, fetched) ==
  [op |-> name, header |-> header, arg |-> arg, fetched |-> fetched]

\* The state after construction, the row loop running with a batch size of
\* sizes.
InitWith(sizes) ==
  /\ variant \in {"popup", "page"}
  /\ dbContacts \in InitialContacts
  /\ dbContactFields = InitialFields
  /\ dbUsers \in InitialUsers
  /\ step = 1
  /\ subStep = "upload"
  /\ error = Null
  /\ parsedData = <<>>
  /\ mappingResult = Null
  /\ importStats = ZeroStats
  /\ importing = FALSE
  /\ pc = "idle"
  /\ stats = ZeroStats
  /\ newFieldsMap = EmptyDoc
  /\ fieldPos = 1
  /\ finalMapping = EmptyDoc
  /\ usersByEmail = EmptyDoc
  /\ idx = 1
  /\ mappedContact = EmptyDoc
  /\ existing = NoContact
  /\ issued = <<>>
  /\ lookupThrew = FALSE
  /\ faults = 0
  /\ contacts0 = dbContacts
  /\ fields0 = dbContactFields
  /\ log = <<>>
  /\ contactFields = EmptyDoc
  /\ showNewFieldInput = Null
  /\ proposal = Null
  /\ lastOp = Op("none", "", "", FALSE)
  /\ chunkSize \in sizes
  /\ previousRuns = <<>>
  /\ peer = NoPeer

Init == InitWith({batchSize})

\* ------------------------------------------------------- handleFileSelect
\* err.message of a failed mapping step: the response was not ok (the API key
\* is missing, the classifier's output did not parse), or fetch itself rejected.
ClassifierFailures == {"Failed to get mapping suggestions", "Failed to fetch"}

\* Mutant of SubStepAfterFailure: the popup stays in the 'loading' sub-step.
SubStepStuckLoading == IF variant = "popup" THEN "loading" ELSE subStep

\* The catch block: setSubStep('upload') in the popup; the page has no sub-step.
SubStepAfterFailure == IF variant = "popup" THEN "upload" ELSE subStep

\* The whole handler: parse the file (one of files), read contactFields, call
\* the classifier (which answers with one of responses, or fails).
FileSelect(files, responses) ==
  /\ pc = "idle"
  /\ step = 1
  /\ variant = "popup" => subStep = "upload"
  /\ \E fileData \in files :
       \/ \* parsed, fields read, classifier answered
          /\ Len(fileData) > 0
          /\ \E mapping \in responses :
               /\ parsedData' = fileData
               /\ contactFields' = dbContactFields
               /\ mappingResult' = Some(mapping)
               /\ proposal' = Some(mapping)
               /\ error' = Null
               /\ lastOp' = Op("handleFileSelect", "", "", TRUE)
               /\ IF variant = "popup"
                  THEN subStep' = "review" /\ step' = step
                  ELSE step' = 2 /\ subStep' = subStep
       \/ \* 'No data found in file'
          /\ Len(fileData) = 0
          /\ parsedData' = fileData
          /\ error' = Some("No data found in file")
          /\ subStep' = SubStepAfterFailure
          /\ lastOp' = Op("handleFileSelect", "", "", FALSE)
          /\ UNCHANGED << mappingResult, step, contactFields, proposal >>
       \/ \* the classifier request failed or was not ok
          /\ Len(fileData) > 0
          /\ parsedData' = fileData
          /\ contactFields' = dbContactFields
          /\ \E message \in ClassifierFailures : error' = Some(message)
          /\ subStep' = SubStepAfterFailure
          /\ lastOp' = Op("handleFileSelect", "", "", TRUE)
          /\ UNCHANGED << mappingResult, step, proposal >>
  /\ UNCHANGED << variant, storeVars, importStats, importing, runVars,
                  showNewFieldInput >>

\* handleFileSelect when the classifier keeps to the response grammar of its prompt.
handleFileSelect ==
  /\ step = 1
  /\ FileSelect(Files, Proposals(variant))

\* Footer: "Next" of step 1 (popup, review sub-step)
NextFromReview ==
  /\ variant = "popup"
  /\ step = 1 /\ subStep = "review"
  /\ step' = 2
  /\ lastOp' = Op("next", "", "", FALSE)
  /\ UNCHANGED << variant, storeVars, subStep, error, parsedData, mappingResult,
                  importStats, importing, runVars, contactFields, proposal,
                  showNewFieldInput >>

\* Footer: "Previous" of step 2
PreviousFromMapping ==
  /\ step = 2
  /\ step' = 1
  /\ subStep' = IF variant = "popup" THEN "review" ELSE subStep
  /\ lastOp' = Op("previous", "", "", FALSE)
  /\ UNCHANGED << variant, storeVars, error, parsedData, mappingResult,
                  importStats, importing, runVars, contactFields, proposal,
                  showNewFieldInput >>

\* ------------------------------------------------------ mapping reconciler
\* Mutant of UnmappedOf: the list is not recomputed from the edited mapping.
UnmappedOfStale(mapping) == mappingResult[1].unmappedHeaders \cap DOMAIN mapping

\* Object.keys(updatedMapping).filter(h => updatedMapping[h].mappedTo === 'unmapped')
UnmappedOf(mapping) == {h \in DOMAIN mapping : mapping[h].mappedTo = "unmapped"}

\* updatedMapping[header] = { ...updatedMapping[header], mappedTo }: the entry
\* keeps its confidence; a header without an entry gets one without confidence.
SetTarget(mapping, header, mappedTo) ==
  Put(mapping, header,
      Merge(IF header \in DOMAIN mapping THEN mapping[header] ELSE EmptyDoc,
            [mappedTo |-> mappedTo]))

\* setMappingResult({ ...mappingResult, mapping: updatedMapping, unmappedHeaders: ... })
Edited(result, header, mappedTo) ==
  [result EXCEPT !.mapping = SetTarget(result.mapping, header, mappedTo),
                 !.unmappedHeaders = UnmappedOf(SetTarget(result.mapping, header, mappedTo))]

\* Texts typed into the new-field input.
Labels == {"", "  ", "Org", " Dept "}

TrimmedLabel == [l \in Labels |-> Trim(l)]

\* Mutant of NewFieldTarget: the label is used as typed.
NewFieldTargetUntrimmed(newFieldName) == "NEW:" \o newFieldName

\* `NEW:${newFieldName.trim()}`
NewFieldTarget(newFieldName) == "NEW:" \o TrimmedLabel[newFieldName]

\* The change handler of a header's <select>.
handleUpdateMapping(header, newMappedTo) ==
  /\ pc = "idle"
  /\ mappingResult # Null
  /\ IF variant = "popup" /\ newMappedTo = "__CREATE_NEW__"
     THEN /\ showNewFieldInput' = Some(header)
          /\ UNCHANGED mappingResult
     ELSE /\ mappingResult' = Some(Edited(mappingResult[1], header, newMappedTo))
          /\ showNewFieldInput' = Null
  /\ lastOp' = Op("handleUpdateMapping", header, newMappedTo, FALSE)
  /\ UNCHANGED << variant, storeVars, step, subStep, error, parsedData, importStats,
                  importing, runVars, contactFields, proposal >>

\* Popup: Enter or "Create" in the new-field input of a header.
handleCreateNewField(header, newFieldName) ==
  /\ variant = "popup"
  /\ pc = "idle"
  /\ IF TrimmedLabel[newFieldName] = "" \/ mappingResult = Null
     THEN UNCHANGED << mappingResult, showNewFieldInput >>
     ELSE /\ mappingResult' =
               Some(Edited(mappingResult[1], header, NewFieldTarget(newFieldName)))
          /\ showNewFieldInput' = Null
  /\ lastOp' = Op("handleCreateNewField", header, newFieldName, FALSE)
  /\ UNCHANGED << variant, storeVars, step, subStep, error, parsedData, importStats,
                  importing, runVars, contactFields, proposal >>

\* Popup: Escape or "Cancel" in the new-field input.
CancelNewField ==
  /\ variant = "popup"
  /\ pc = "idle" /\ step = 2
  /\ showNewFieldInput # Null
  /\ showNewFieldInput' = Null
  /\ lastOp' = Op("cancelNewField", showNewFieldInput[1], "", FALSE)
  /\ UNCHANGED << variant, storeVars, step, subStep, error, parsedData, mappingResult,
                  importStats, importing, runVars, contactFields, proposal >>

\* Popup: the "Reset" button of one header; its click handler is empty.
ResetHeader(header) ==
  /\ variant = "popup"
  /\ pc = "idle"
  /\ lastOp' = Op("resetHeader", header, "", FALSE)
  /\ UNCHANGED << variant, storeVars, step, subStep, error, parsedData, mappingResult,
                  importStats, importing, runVars, contactFields, showNewFieldInput,
                  proposal >>

\* Popup: "Reset to Default" asks the classifier again and, when the response
\* is ok, stores it as the mapping result.
ResetToDefault(responses) ==
  /\ variant = "popup"
  /\ pc = "idle"
  /\ IF Len(parsedData) = 0 \/ contactFields = EmptyDoc
     THEN /\ lastOp' = Op("handleResetToDefault", "", "", FALSE)
          /\ UNCHANGED << mappingResult, proposal >>
     ELSE /\ lastOp' = Op("handleResetToDefault", "", "", TRUE)
          /\ \/ \E mapping \in responses :
                  /\ mappingResult' = Some(mapping)
                  /\ proposal' = Some(mapping)
             \/ \* the request failed or was not ok
                UNCHANGED << mappingResult, proposal >>
  /\ UNCHANGED << variant, storeVars, step, subStep, error, parsedData, importStats,
                  importing, runVars, contactFields, showNewFieldInput >>

\* ------------------------------------------------------- mapRowToContact
Placeholders == {"", "-", "null", "undefined"}

\* One iteration of the loop over Object.entries(row), popup variant.
MapCell(contact, header, value, mapping, byEmail) ==
  IF header \notin DOMAIN mapping \/ mapping[header].mappedTo = "unmapped" THEN contact
  ELSE LET stringValue == Trimmed[value]
           mappedTo == mapping[header].mappedTo
       IN IF stringValue \in Placeholders THEN contact
          ELSE IF mappedTo = "agentUid"
               THEN IF stringValue \in DOMAIN byEmail
                    THEN Put(contact, "agentUid", byEmail[stringValue])
                    ELSE contact
               ELSE Put(contact, mappedTo, value)

\* One iteration of the loop over Object.entries(row), page variant.
MapCellPage(contact, header, value, mapping, byEmail) ==
  IF header \notin DOMAIN mapping \/ mapping[header].mappedTo = "unmapped" \/ value = ""
  THEN contact
  ELSE LET mappedTo == mapping[header].mappedTo
       IN IF mappedTo = "agentUid"
          THEN IF value \in DOMAIN byEmail
               THEN Put(contact, "agentUid", byEmail[value])
               ELSE contact
          ELSE Put(contact, mappedTo, value)

RECURSIVE MapCells(_, _, _, _, _, _)
MapCells(contact, i, row, mapping, byEmail, v) ==
  IF i > Len(HeaderSeq) THEN contact
  ELSE LET h == HeaderSeq[i]
           next == IF h \notin DOMAIN row THEN contact
                   ELSE IF v = "popup"
                        THEN MapCell(contact, h, row[h], mapping, byEmail)
                        ELSE MapCellPage(contact, h, row[h], mapping, byEmail)
       IN MapCells(next, i + 1, row, mapping, byEmail, v)

mapRowToContact(row, mapping, byEmail, v) ==
  MapCells(EmptyDoc, 1, row, mapping, byEmail, v)

\* ------------------------------------------------------------- validation
\* Popup: all of firstName, lastName, email, phone are required.
MissingFields(c) ==
  {k \in {"firstName", "lastName", "email", "phone"} : ~Truthy(c, k) \/ Trimmed[c[k]] = ""}

\* Mutant of Valid: only the first name is required.
ValidNameOnly(c, v) == Truthy(c, "firstName")

\* Mutant of Valid: no validation, every transformed row goes on to the lookup.
ValidAlways(c, v) == TRUE

\* The row passes the variant's validation.
Valid(c, v) ==
  IF v = "popup" THEN MissingFields(c) = {}
  ELSE Truthy(c, "email") \/ Truthy(c, "phone")

\* ---------------------------------------------------- findExistingContact
\* query(collection(db,'contacts'), where(field,'==',value)): matching doc ids.
Query(db, field, value) ==
  {id \in DOMAIN db : field \in DOMAIN db[id] /\ db[id][field] = value}

\* Mutant of findExistingContact: the phone is looked up before the email.
findExistingContactPhoneFirst(contact, db, fault) ==
  LET askEmail == Truthy(contact, "email")
      askPhone == Truthy(contact, "phone")
      emailHits == IF askEmail THEN Query(db, "email", contact["email"]) ELSE {}
      phoneHits == IF askPhone THEN Query(db, "phone", contact["phone"]) ELSE {}
      first == IF askPhone THEN <<"phone">> ELSE <<>>
  IN IF askPhone /\ fault = "phone"
     THEN [id |-> NoContact, issued |-> first, threw |-> TRUE]
     ELSE IF phoneHits # {}
     THEN [id |-> Min(phoneHits), issued |-> first, threw |-> FALSE]
     ELSE IF askEmail /\ fault = "email"
     THEN [id |-> NoContact, issued |-> Append(first, "email"), threw |-> TRUE]
     ELSE IF emailHits # {}
     THEN [id |-> Min(emailHits), issued |-> Append(first, "email"), threw |-> FALSE]
     ELSE [id |-> NoContact,
           issued |-> IF askEmail THEN Append(first, "email") ELSE first,
           threw |-> FALSE]

\* Mutant of findExistingContact: only the phone is looked up.
findExistingContactPhoneOnly(contact, db, fault) ==
  LET askPhone == Truthy(contact, "phone")
      phoneHits == IF askPhone THEN Query(db, "phone", contact["phone"]) ELSE {}
      first == IF askPhone THEN <<"phone">> ELSE <<>>
  IN IF fault = "email" \/ (askPhone /\ fault = "phone")
     THEN [id |-> NoContact, issued |-> first, threw |-> TRUE]
     ELSE IF phoneHits # {}
     THEN [id |-> Min(phoneHits), issued |-> first, threw |-> FALSE]
     ELSE [id |-> NoContact, issued |-> first, threw |-> FALSE]

\* Mutant of findExistingContact: no deduplication, nothing is looked up.
findExistingContactNone(contact, db, fault) ==
  [id |-> NoContact, issued |-> <<>>, threw |-> fault # "none"]

\* fault: the query that throws ("email", "phone") or "none".
findExistingContact(contact, db, fault) ==
  LET askEmail == Truthy(contact, "email")
      askPhone == Truthy(contact, "phone")
      emailHits == IF askEmail THEN Query(db, "email", contact["email"]) ELSE {}
      phoneHits == IF askPhone THEN Query(db, "phone", contact["phone"]) ELSE {}
      first == IF askEmail THEN <<"email">> ELSE <<>>
  IN IF askEmail /\ fault = "email"
     THEN [id |-> NoContact, issued |-> first, threw |-> TRUE]
     ELSE IF emailHits # {}
     THEN [id |-> Min(emailHits), issued |-> first, threw |-> FALSE]
     ELSE IF askPhone /\ fault = "phone"
     THEN [id |-> NoContact, issued |-> Append(first, "phone"), threw |-> TRUE]
     ELSE IF phoneHits # {}
     THEN [id |-> Min(phoneHits), issued |-> Append(first, "phone"), threw |-> FALSE]
     ELSE [id |-> NoContact,
           issued |-> IF askPhone THEN Append(first, "phone") ELSE first,
           threw |-> FALSE]

\* ------------------------------------------------------------ handleImport
\* Mutant of Bump: the counter is incremented twice.
BumpTwice(s, field) == [s EXCEPT ![field] = @ + 2]

\* stats.<field>++
Bump(s, field) == [s EXCEPT ![field] = @ + 1]

\* Object.entries(mappingResult.mapping): the mapped headers in order.
MappingKeys(mapping) == SelectSeq(HeaderSeq, LAMBDA h : h \in DOMAIN mapping)

\* Positions of the field-creation loop, from position p on, that create a field.
PendingNew(mapping, p) ==
  {i \in p..Len(MappingKeys(mapping)) :
     StartsWith(mapping[MappingKeys(mapping)[i]].mappedTo, "NEW:")}

\* Mutant of UpdatedMapping: the created id is looked up under the bare label
\* instead of under NEW:<label>, so no target is replaced.
UpdatedMappingByLabel(mapping, created) ==
  [h \in DOMAIN mapping |->
     IF StartsWith(mapping[h].mappedTo, "NEW:")
          /\ Substring(mapping[h].mappedTo, 4) \in DOMAIN created
     THEN [mapping[h] EXCEPT !.mappedTo = created[Substring(mapping[h].mappedTo, 4)]]
     ELSE mapping[h]]

\* 'Update mapping with actual field IDs'
UpdatedMapping(mapping, created) ==
  [h \in DOMAIN mapping |->
     IF StartsWith(mapping[h].mappedTo, "NEW:") /\ mapping[h].mappedTo \in DOMAIN created
     THEN [mapping[h] EXCEPT !.mappedTo = created[mapping[h].mappedTo]]
     ELSE mapping[h]]

\* usersSnapshot.docs.map(doc => [doc.data().email, doc.id]) as a Map: for an
\* email held by several users the last document (highest id) wins.
UsersByEmail(db) ==
  [e \in {db[u].email : u \in DOMAIN db} |->
     CHOOSE u \in DOMAIN db :
       /\ db[u].email = e
       /\ \A w \in DOMAIN db : db[w].email = e => UserPos(w) <= UserPos(u)]

\* The outer catch of handleImport (popup 487-492, page 708-713).
Abort(msg) ==
  /\ faults < MaxFaults
  /\ faults' = faults + 1
  /\ error' = Some(msg)
  /\ importing' = FALSE
  /\ pc' = "failed"

\* Array.prototype.slice(start, end): the elements at 0-based positions
\* start .. end-1, end clipped to the length.
Slice(s, start, end) ==
  SubSeq(s, start + 1, IF end < Len(s) THEN end ELSE Len(s))

RECURSIVE BatchesSkipping(_, _, _)
\* Mutant of Batches: the outer loop steps by size + 1.
BatchesSkipping(rows, size, i) ==
  IF i < Len(rows)
  THEN <<Slice(rows, i, i + size)>> \o BatchesSkipping(rows, size, i + size + 1)
  ELSE <<>>

RECURSIVE Batches(_, _, _)
\* for (let i = 0; i < parsedData.length; i += batchSize)
\*   batch = parsedData.slice(i, i + batchSize): the batches from position i on.
Batches(rows, size, i) ==
  IF i < Len(rows)
  THEN <<Slice(rows, i, i + size)>> \o Batches(rows, size, i + size)
  ELSE <<>>

RECURSIVE Flatten(_)
Flatten(ss) == IF ss = <<>> THEN <<>> ELSE Head(ss) \o Flatten(Tail(ss))

\* The rows in the order the nested loops (batches, then the rows of a batch)
\* hand them to the loop body.
RowsInOrder(rows, size) == Flatten(Batches(rows, size, 0))

\* Mutant of Advance: a failing row ends the run through the outer catch.
AdvanceAbortOnFailure(newStats, entry) ==
  /\ stats' = newStats
  /\ log' = Append(log, entry)
  /\ idx' = idx + 1
  /\ IF entry.outcome \in {"rejected", "failed"}
     THEN /\ pc' = "failed"
          /\ importing' = FALSE
          /\ UNCHANGED importStats
     ELSE IF idx = Len(RowsInOrder(parsedData, chunkSize))
     THEN /\ pc' = "done"
          /\ importStats' = newStats
          /\ importing' = FALSE
     ELSE /\ pc' = "row"
          /\ UNCHANGED << importStats, importing >>

\* End of one iteration of the row loop; after the last row the stats are
\* published (setImportStats, setImporting(false)).
Advance(newStats, entry) ==
  /\ stats' = newStats
  /\ log' = Append(log, entry)
  /\ idx' = idx + 1
  /\ IF idx = Len(RowsInOrder(parsedData, chunkSize))
     THEN /\ pc' = "done"
          /\ importStats' = newStats
          /\ importing' = FALSE
     ELSE /\ pc' = "row"
          /\ UNCHANGED << importStats, importing >>

\* The "Next" button of step 2: handleImport up to its first await.
handleImport ==
  /\ step = 2
  /\ pc \in {"idle", "done", "failed"}
  /\ mappingResult # Null /\ Len(parsedData) > 0
  /\ step' = 3
  /\ importing' = TRUE
  /\ stats' = [total |-> Len(parsedData), created |-> 0, merged |-> 0, errors |-> 0]
  /\ pc' = IF variant = "popup" THEN "fields" ELSE "users"
  /\ newFieldsMap' = EmptyDoc
  /\ fieldPos' = 1
  /\ finalMapping' = mappingResult[1].mapping
  /\ idx' = 1
  /\ log' = <<>>
  /\ faults' = 0
  /\ contacts0' = dbContacts
  /\ fields0' = dbContactFields
  /\ lastOp' = Op("handleImport", "", "", FALSE)
  /\ UNCHANGED << variant, storeVars, subStep, error, parsedData, mappingResult,
                  importStats, usersByEmail, mappedContact, existing, issued,
                  lookupThrew, contactFields, proposal, showNewFieldInput,
                  chunkSize, previousRuns, peer >>

\* Mutant of CreateNewField: a failed field creation is caught inside the
\* loop, which goes on with the next header.
CreateNewFieldSkipFailed ==
  /\ pc = "fields"
  /\ PendingNew(mappingResult[1].mapping, fieldPos) # {}
  /\ LET mapping == mappingResult[1].mapping
         i == Min(PendingNew(mapping, fieldPos))
         mappedTo == mapping[MappingKeys(mapping)[i]].mappedTo
         fieldName == Substring(mappedTo, 4)
     IN \/ \E id \in FieldIds \ DOMAIN dbContactFields :
             /\ dbContactFields' =
                  Put(dbContactFields, id,
                      [label |-> fieldName, type |-> "text", core |-> FALSE])
             /\ newFieldsMap' = Put(newFieldsMap, mappedTo, id)
             /\ fieldPos' = i + 1
             /\ UNCHANGED << error, importing, pc, faults >>
        \/ /\ faults < MaxFaults
           /\ faults' = faults + 1
           /\ fieldPos' = i + 1
           /\ UNCHANGED << dbContactFields, newFieldsMap, error, importing, pc >>
  /\ UNCHANGED << variant, dbContacts, dbUsers, step, subStep, parsedData, mappingResult,
                  importStats, stats, finalMapping, usersByEmail, idx, mappedContact,
                  existing, issued, lookupThrew, contacts0, fields0, log,
                  contactFields, showNewFieldInput, proposal, lastOp,
                  chunkSize, previousRuns, peer >>

\* Popup, 'Step 1: Create new custom fields if needed': the loop up to and
\* including its next addDoc(collection(db,'contactFields'), ...).
CreateNewField ==
  /\ pc = "fields"
  /\ PendingNew(mappingResult[1].mapping, fieldPos) # {}
  /\ LET mapping == mappingResult[1].mapping
         i == Min(PendingNew(mapping, fieldPos))
         mappedTo == mapping[MappingKeys(mapping)[i]].mappedTo
         fieldName == Substring(mappedTo, 4)
     IN \/ \E id \in FieldIds \ DOMAIN dbContactFields :
             /\ dbContactFields' =
                  Put(dbContactFields, id,
                      [label |-> fieldName, type |-> "text", core |-> FALSE])
             /\ newFieldsMap' = Put(newFieldsMap, mappedTo, id)
             /\ fieldPos' = i + 1
             /\ UNCHANGED << error, importing, pc, faults >>
        \/ \* addDoc throws
           /\ Abort("Failed to create field")
           /\ UNCHANGED << dbContactFields, newFieldsMap, fieldPos >>
  /\ UNCHANGED << variant, dbContacts, dbUsers, step, subStep, parsedData, mappingResult,
                  importStats, stats, finalMapping, usersByEmail, idx, mappedContact,
                  existing, issued, lookupThrew, contacts0, fields0, log,
                  contactFields, showNewFieldInput, proposal, lastOp,
                  chunkSize, previousRuns, peer >>

\* 'Update mapping with actual field IDs' (popup) and
\* getDocs(collection(db,'users')) (both variants).
LoadUsers ==
  /\ \/ pc = "users"
     \/ pc = "fields" /\ PendingNew(mappingResult[1].mapping, fieldPos) = {}
  /\ finalMapping' =
       IF variant = "popup"
       THEN UpdatedMapping(mappingResult[1].mapping, newFieldsMap)
       ELSE mappingResult[1].mapping
  /\ \/ /\ usersByEmail' = UsersByEmail(dbUsers)
        /\ pc' = "row"
        /\ UNCHANGED << error, importing, faults >>
     \/ \* getDocs throws
        /\ Abort("Failed to load users")
        /\ UNCHANGED usersByEmail
  /\ UNCHANGED << variant, storeVars, step, subStep, parsedData, mappingResult,
                  importStats, stats, newFieldsMap, fieldPos, idx, mappedContact,
                  existing, issued, lookupThrew, contacts0, fields0, log,
                  contactFields, showNewFieldInput, proposal, lastOp,
                  chunkSize, previousRuns, peer >>

\* Row loop: mapRowToContact and the validation of the row.
TransformRow ==
  /\ pc = "row"
  /\ LET row == RowsInOrder(parsedData, chunkSize)[idx]
         mc == mapRowToContact(row, finalMapping, usersByEmail, variant)
     IN /\ mappedContact' = mc
        /\ IF Valid(mc, variant)
           THEN /\ pc' = "lookup"
                /\ UNCHANGED << stats, log, idx, importStats, importing >>
           ELSE Advance(Bump(stats, "errors"),
                        [outcome |-> "rejected", id |-> NoContact, issued |-> <<>>,
                         threw |-> FALSE, contact |-> mc])
  /\ existing' = NoContact
  /\ issued' = <<>>
  /\ lookupThrew' = FALSE
  /\ UNCHANGED << variant, storeVars, step, subStep, error, parsedData, mappingResult,
                  newFieldsMap, fieldPos, finalMapping, usersByEmail, faults, contacts0,
                  fields0, contactFields, showNewFieldInput, proposal, lastOp,
                  chunkSize, previousRuns, peer >>

\* Row loop: await findExistingContact(mappedContact).
LookupRow ==
  /\ pc = "lookup"
  /\ \E fault \in {"none", "email", "phone"} :
       LET r == findExistingContact(mappedContact, dbContacts, fault)
       IN /\ fault # "none" => r.threw /\ faults < MaxFaults
          /\ existing' = r.id
          /\ issued' = r.issued
          /\ lookupThrew' = r.threw
          /\ faults' = IF r.threw THEN faults + 1 ELSE faults
  /\ pc' = "write"
  /\ UNCHANGED << variant, storeVars, step, subStep, error, parsedData, mappingResult,
                  importStats, importing, stats, newFieldsMap, fieldPos, finalMapping,
                  usersByEmail, idx, mappedContact, contacts0, fields0, log,
                  contactFields, showNewFieldInput, proposal, lastOp,
                  chunkSize, previousRuns, peer >>

\* Mutant of UpdateDoc: the document is replaced (setDoc without merge).
UpdateDocReplace(db, id, data) == [db EXCEPT ![id] = data]

\* updateDoc(doc(db,'contacts',id), data): the fields of data overwrite, the
\* other fields of the document are kept.
UpdateDoc(db, id, data) == [db EXCEPT ![id] = Merge(@, data)]

\* Mutant of AddDoc: the write is acknowledged and lost.
AddDocLost(db, id, data) == db

\* addDoc(collection(db,'contacts'), data) under a fresh document id.
AddDoc(db, id, data) == Put(db, id, data)

LogEntry(o, id) ==
  [outcome |-> o, id |-> id, issued |-> issued, threw |-> lookupThrew,
   contact |-> mappedContact]

\* Mutant of WriteRow: lookup and write form one transaction; a row without a
\* match is created only if no record holds its email at the time of the write,
\* and merged into the first such record otherwise.
WriteRowTransactional ==
  /\ pc = "write"
  /\ \/ /\ existing # NoContact
        /\ dbContacts' = UpdateDoc(dbContacts, existing, mappedContact)
        /\ Advance(Bump(stats, "merged"), LogEntry("merged", existing))
        /\ UNCHANGED faults
     \/ /\ existing = NoContact
        /\ Truthy(mappedContact, "email")
        /\ Query(dbContacts, "email", mappedContact["email"]) # {}
        /\ dbContacts' = UpdateDoc(dbContacts,
                                   Min(Query(dbContacts, "email", mappedContact["email"])),
                                   mappedContact)
        /\ Advance(Bump(stats, "merged"),
                   LogEntry("merged", Min(Query(dbContacts, "email", mappedContact["email"]))))
        /\ UNCHANGED faults
     \/ /\ existing = NoContact
        /\ ~(Truthy(mappedContact, "email")
               /\ Query(dbContacts, "email", mappedContact["email"]) # {})
        /\ \E id \in ContactIds \ DOMAIN dbContacts :
             /\ dbContacts' = AddDoc(dbContacts, id, mappedContact)
             /\ Advance(Bump(stats, "created"), LogEntry("created", id))
             /\ UNCHANGED faults
     \/ \* updateDoc or addDoc throws: the per-row catch
        /\ faults < MaxFaults
        /\ faults' = faults + 1
        /\ UNCHANGED dbContacts
        /\ Advance(Bump(stats, "errors"), LogEntry("failed", existing))
  /\ UNCHANGED << variant, dbContactFields, dbUsers, step, subStep, error, parsedData,
                  mappingResult, newFieldsMap, fieldPos, finalMapping, usersByEmail,
                  mappedContact, existing, issued, lookupThrew, contacts0, fields0,
                  contactFields, showNewFieldInput, proposal, lastOp,
                  chunkSize, previousRuns, peer >>

\* Row loop: the write of the row (updateDoc on a match, addDoc otherwise).
WriteRow ==
  /\ pc = "write"
  /\ \/ /\ existing # NoContact
        /\ dbContacts' = UpdateDoc(dbContacts, existing, mappedContact)
        /\ Advance(Bump(stats, "merged"), LogEntry("merged", existing))
        /\ UNCHANGED faults
     \/ /\ existing = NoContact
        /\ \E id \in ContactIds \ DOMAIN dbContacts :
             /\ dbContacts' = AddDoc(dbContacts, id, mappedContact)
             /\ Advance(Bump(stats, "created"), LogEntry("created", id))
             /\ UNCHANGED faults
     \/ \* updateDoc or addDoc throws: the per-row catch
        /\ faults < MaxFaults
        /\ faults' = faults + 1
        /\ UNCHANGED dbContacts
        /\ Advance(Bump(stats, "errors"), LogEntry("failed", existing))
  /\ UNCHANGED << variant, dbContactFields, dbUsers, step, subStep, error, parsedData,
                  mappingResult, newFieldsMap, fieldPos, finalMapping, usersByEmail,
                  mappedContact, existing, issued, lookupThrew, contacts0, fields0,
                  contactFields, showNewFieldInput, proposal, lastOp,
                  chunkSize, previousRuns, peer >>

Next ==
  \/ handleFileSelect
  \/ NextFromReview
  \/ PreviousFromMapping
  \/ handleImport
  \/ CreateNewField
  \/ LoadUsers
  \/ TransformRow
  \/ LookupRow
  \/ WriteRow

Spec == Init /\ [][Next]_vars

\* Awaited store operations settle (they return or throw), so an enabled
\* step of the running import is eventually taken.
ImportStep == CreateNewField \/ LoadUsers \/ TransformRow \/ LookupRow \/ WriteRow

FairSpec == Spec /\ WF_vars(ImportStep)

\* ------------------------------------------------- the wizard before import
\* Classifier responses that leave the response grammar: getMappingSuggestions
\* returns whatever JSON.parse yields and handleFileSelect stores it.
MalformedResponses ==
  { [mapping |-> [h \in (Headers \ {"org"}) \cup {"ghost"} |->
                    IF h = "ghost" THEN Entry("email", 90)
                    ELSE CoreMapping(Entry("f1", 75), Entry("unmapped", 30))[h]],
     unmappedHeaders |-> {"first"}, notes |-> "n"],
    [mapping |-> CoreMapping(Entry("f1", 150), Entry("firstName", 30)),
     unmappedHeaders |-> {}, notes |-> "n"] }

Responses(v) == Proposals(v) \cup MalformedResponses

\* Files selected while the mapping is being edited (the rows play no part).
EditFiles == {<<>>} \cup {<<r>> : r \in {x \in RowPool : x.first = "Ann"}}

\* Headers whose row of the mapping list the user works on.
EditedHeaders == {"co", "org", "ghost"}

\* Options of a header's <select> the user picks.
SelectOptions ==
  {"unmapped", "email"} \cup (DOMAIN contactFields)
    \cup (IF variant = "popup" THEN {"__CREATE_NEW__"} ELSE {})

\* The mapping list of step 2 renders one row per entry of mappingResult.mapping.
Rendered == IF mappingResult = Null THEN {} ELSE DOMAIN mappingResult[1].mapping

\* handleFileSelect when the classifier answers with any response.
handleFileSelectAnyResponse ==
  /\ step = 1
  /\ FileSelect(EditFiles, Responses(variant))

\* "Edit" on a header's row, then a choice in its <select>.
EditTarget ==
  /\ step = 2
  /\ \E header \in EditedHeaders \cap Rendered, newMappedTo \in SelectOptions :
       /\ showNewFieldInput # Some(header)
       /\ handleUpdateMapping(header, newMappedTo)

\* A text typed into the new-field input of a header, then Enter or "Create".
SubmitNewField ==
  /\ step = 2
  /\ showNewFieldInput # Null
  /\ showNewFieldInput[1] \in Rendered
  /\ \E newFieldName \in Labels : handleCreateNewField(showNewFieldInput[1], newFieldName)

ClickResetHeader ==
  /\ step = 2
  /\ \E header \in EditedHeaders \cap Rendered :
       /\ showNewFieldInput # Some(header)
       /\ ResetHeader(header)

handleResetToDefault ==
  /\ step = 2
  /\ mappingResult # Null
  /\ ResetToDefault(Responses(variant))

EditNext ==
  \/ handleFileSelectAnyResponse
  \/ NextFromReview
  \/ PreviousFromMapping
  \/ EditTarget
  \/ SubmitNewField
  \/ CancelNewField
  \/ ClickResetHeader
  \/ handleResetToDefault
  \/ handleImport

\* The wizard from its opening to the start of the import, the classifier
\* answering with any response.
EditSpec == Init /\ [][EditNext]_vars

\* handleUpdateMapping called for a header that has no entry in the mapping
\* (the mapping list never does this: it calls it for rendered headers only).
EditUnknownHeader ==
  /\ step = 2
  /\ mappingResult # Null
  /\ \E header \in (Headers \cup {"ghost"}) \ Rendered, newMappedTo \in {"unmapped", "email"} :
       handleUpdateMapping(header, newMappedTo)

ReconcilerNext == EditNext \/ EditUnknownHeader

\* The reconciler's handlers under any header argument.
ReconcilerSpec == Init /\ [][ReconcilerNext]_vars

\* ================================================================ claims
InRowLoop == pc \in {"row", "lookup", "write"}

RunEnded == pc \in {"done", "failed"}

\* Entry i of the log is what the run did with row i.
LogMatchesRows ==
  /\ Len(log) = Len(parsedData)
  /\ \A i \in 1..Len(log) :
       log[i].contact = mapRowToContact(parsedData[i], finalMapping, usersByEmail, variant)

StatsPublished == ~importing /\ importStats = stats /\ LogMatchesRows

\* Phase 1 is over: every NEW:<label> header of the mapping had its field created.
PastMaterialization ==
  /\ pc # "idle"
  /\ variant = "popup" => PendingNew(mappingResult[1].mapping, fieldPos) = {}

\* C1 as stated: every import run that gets past field materialization ends,
\* whatever rows fail, with every row processed once and its stats published.
C1_Original == (RunEnded /\ PastMaterialization) => StatsPublished

\* C1 (amended): once the run has entered the row loop (field materialization
\* and the load of the users collection are done), whatever rows fail
\* (validation rejection, failed create, failed update), every row is processed
\* exactly once, in order, and the run eventually ends with importing = false
\* and the accumulated stats published.
C1_RowFailuresIsolated == InRowLoop ~> (pc = "done" /\ StatsPublished)

\* A finished run in which a row failed and a later row was still written.
C1_Witness ==
  /\ pc = "done" /\ StatsPublished
  /\ \E i, j \in 1..Len(log) :
       /\ i < j
       /\ log[i].outcome \in {"rejected", "failed"}
       /\ log[j].outcome \in {"created", "merged"}

StatsSum(s) == s.created + s.merged + s.errors

NoDecrease(s, t) ==
  /\ t.created >= s.created
  /\ t.merged >= s.merged
  /\ t.errors >= s.errors

\* C2: during an import run created + merged + errors <= total, total is the
\* number of parsed rows, and none of created, merged, errors decreases.
C2_StatsBounded ==
  /\ [](/\ StatsSum(stats) <= stats.total
        /\ StatsSum(importStats) <= importStats.total
        /\ pc # "idle" => stats.total = Len(parsedData))
  /\ [][pc # "idle" => NoDecrease(stats, stats') /\ NoDecrease(importStats, importStats')]_vars

\* A finished run that counted a created, a merged or a failed row in full.
C2_Witness ==
  /\ pc = "done"
  /\ stats.errors > 0 /\ stats.created + stats.merged > 0
  /\ StatsSum(importStats) = importStats.total

\* The write step of a valid row whose email is the email of a stored
\* contact, when neither the lookup nor the write throws.
MergeCase ==
  /\ pc = "write"
  /\ ~lookupThrew
  /\ faults' = faults
  /\ Truthy(mappedContact, "email")
  /\ Query(dbContacts, "email", mappedContact["email"]) # {}

CleanRunDone == pc = "done" /\ faults = 0

\* The transformed rows carry pairwise different emails and pairwise
\* different phones (disjoint identities), and every one has an email.
DisjointIdentities ==
  /\ \A i \in 1..Len(log) : Truthy(log[i].contact, "email")
  /\ \A i, j \in 1..Len(log) :
       i # j =>
         /\ log[i].contact["email"] # log[j].contact["email"]
         /\ (Truthy(log[i].contact, "phone") /\ Truthy(log[j].contact, "phone"))
              => log[i].contact["phone"] # log[j].contact["phone"]

\* C4 as stated: N rows with N distinct emails into an empty store, all store
\* operations succeeding, end with created = N, merged = 0, errors = 0.
C4_Claim ==
  (CleanRunDone /\ contacts0 = EmptyDoc /\ DisjointIdentities)
    => (stats.created = Len(parsedData) /\ stats.merged = 0 /\ stats.errors = 0)

\* The row being transformed has neither an email nor a phone.
NoIdentityCase ==
  /\ pc = "row"
  /\ LET mc == mapRowToContact(parsedData[idx], finalMapping, usersByEmail, variant)
     IN "email" \notin DOMAIN mc /\ "phone" \notin DOMAIN mc

\* C5: in both variants a row whose transformed record has neither an email
\* nor a phone adds one to errors and nothing else: no lookup is issued and no
\* contact is created or updated.
C5_RowRejection ==
  [][NoIdentityCase =>
       /\ stats'.errors = stats.errors + 1
       /\ stats'.created = stats.created
       /\ stats'.merged = stats.merged
       /\ dbContacts' = dbContacts
       /\ pc' \in {"row", "done"}
       /\ idx' = idx + 1
       /\ issued' = <<>>
       /\ log'[Len(log')].outcome = "rejected"
    ]_vars

\* A row with some attribute but neither email nor phone was rejected.
C5_Witness ==
  \E i \in 1..Len(log) :
    /\ log[i].outcome = "rejected"
    /\ DOMAIN log[i].contact # {}
    /\ "email" \notin DOMAIN log[i].contact
    /\ "phone" \notin DOMAIN log[i].contact
    /\ stats.errors >= 1
    /\ dbContacts = contacts0

EmailHits(c, db) == IF Truthy(c, "email") THEN Query(db, "email", c["email"]) ELSE {}

PhoneHits(c, db) == IF Truthy(c, "phone") THEN Query(db, "phone", c["phone"]) ELSE {}

\* After a lookup in which no query threw: the record chosen is the first the
\* store returns for the email; the phone is asked only without an email match.
LookupOrder ==
  (pc = "write" /\ ~lookupThrew) =>
    /\ EmailHits(mappedContact, dbContacts) # {} =>
         /\ existing = Min(EmailHits(mappedContact, dbContacts))
         /\ issued = <<"email">>
    /\ (\E i \in 1..Len(issued) : issued[i] = "phone") =>
         EmailHits(mappedContact, dbContacts) = {}
    /\ (EmailHits(mappedContact, dbContacts) = {}
          /\ PhoneHits(mappedContact, dbContacts) # {}) =>
         existing = Min(PhoneHits(mappedContact, dbContacts))
    /\ (EmailHits(mappedContact, dbContacts) = {}
          /\ PhoneHits(mappedContact, dbContacts) = {}) =>
         existing = NoContact

\* C6: the record merged into is the first record the store returns for the
\* row's email; the phone lookup is consulted only when no record matches the
\* email (or the row has no email); a row whose email matches A and whose
\* phone matches another record B is merged into A and B is untouched.
C6_DedupOrder ==
  /\ []LookupOrder
  /\ [][(pc = "write" /\ ~lookupThrew /\ faults' = faults
           /\ EmailHits(mappedContact, dbContacts) # {}) =>
          LET a == Min(EmailHits(mappedContact, dbContacts))
          IN /\ log'[Len(log')].outcome = "merged"
             /\ log'[Len(log')].id = a
             /\ DOMAIN dbContacts' = DOMAIN dbContacts
             /\ \A b \in (DOMAIN dbContacts) \ {a} : dbContacts'[b] = dbContacts[b]
       ]_vars

\* A row whose email matched record A and whose phone matched another record
\* B was merged into A, and B is as it was.
C6_Witness ==
  \E i \in 1..Len(log) :
    /\ log[i].outcome = "merged"
    /\ ~log[i].threw
    /\ log[i].issued = <<"email">>
    /\ contacts0[log[i].id]["email"] = log[i].contact["email"]
    /\ \E b \in (DOMAIN contacts0) \ {log[i].id} :
         /\ "phone" \in DOMAIN contacts0[b]
         /\ contacts0[b]["phone"] = log[i].contact["phone"]
         /\ dbContacts[b] = contacts0[b]

\* What one cell alone puts into an empty record.
CellAlone(h, value) ==
  IF variant = "popup"
  THEN MapCell(EmptyDoc, h, value, finalMapping, usersByEmail)
  ELSE MapCellPage(EmptyDoc, h, value, finalMapping, usersByEmail)

RowsTransformable == pc \in {"row", "lookup", "write", "done"}

\* C7 as stated: in both variants, for every transformed row, a cell holding "-", "null", "undefined" or
\* "" never populates the target attribute of its header.
C7_Claim ==
  RowsTransformable =>
    \A i \in 1..Len(log) : \A h \in DOMAIN finalMapping :
      parsedData[i][h] \in Placeholders => CellAlone(h, parsedData[i][h]) = EmptyDoc

\* C8 as stated: in both variants, for every transformed row, the cell of a header mapped to agentUid
\* yields agentUid = the user id the directory holds for the trimmed cell
\* value, and no agentUid key at all when the directory has no such entry.
C8_Claim ==
  RowsTransformable =>
    \A i \in 1..Len(log) : \A h \in DOMAIN finalMapping :
      finalMapping[h].mappedTo = "agentUid" =>
        LET t == Trimmed[parsedData[i][h]]
        IN CellAlone(h, parsedData[i][h]) =
             IF t \in DOMAIN usersByEmail THEN [agentUid |-> usersByEmail[t]] ELSE EmptyDoc

\* The contactFields documents this run created.
CreatedFields == (DOMAIN dbContactFields) \ (DOMAIN fields0)

CreatedWithLabel(label) == {id \in CreatedFields : dbContactFields[id].label = label}

IsNew(t) == StartsWith(t, "NEW:")

\* C9 as stated: two headers carrying the same NEW:<label> target make the run
\* create exactly one contactFields document with that label, and both headers
\* resolve to its id.
C9_Claim ==
  (RowsTransformable /\ variant = "popup") =>
    \A h1, h2 \in DOMAIN mappingResult[1].mapping :
      LET t1 == mappingResult[1].mapping[h1].mappedTo
          t2 == mappingResult[1].mapping[h2].mappedTo
      IN (h1 # h2 /\ IsNew(t1) /\ t1 = t2) =>
           /\ Cardinality(CreatedWithLabel(Substring(t1, 4))) = 1
           /\ finalMapping[h1].mappedTo = finalMapping[h2].mappedTo
           /\ finalMapping[h1].mappedTo \in CreatedWithLabel(Substring(t1, 4))

\* C10: no row is transformed or written before phase 1 is complete; the
\* mapping that transforms the rows has no NEW:<label> target, each having
\* been replaced by the id of a field created with that label; no contact
\* document has an attribute key of the form NEW:<label>.
C10_MaterializationBarrier ==
  /\ pc \in {"fields", "users"} =>
       /\ log = <<>> /\ idx = 1
       /\ dbContacts = contacts0
  /\ RowsTransformable =>
       /\ variant = "popup" => PendingNew(mappingResult[1].mapping, fieldPos) = {}
       /\ DOMAIN finalMapping = DOMAIN mappingResult[1].mapping
       /\ \A h \in DOMAIN finalMapping :
            LET t == mappingResult[1].mapping[h].mappedTo
            IN /\ ~IsNew(finalMapping[h].mappedTo)
               /\ IsNew(t) => finalMapping[h].mappedTo \in CreatedWithLabel(Substring(t, 4))
               /\ ~IsNew(t) => finalMapping[h] = mappingResult[1].mapping[h]
  /\ \A id \in DOMAIN dbContacts : \A k \in DOMAIN dbContacts[id] : ~IsNew(k)
  /\ \A k \in DOMAIN mappedContact : ~IsNew(k)

\* A contact was written with a value stored under the id of a field that
\* this run created for a NEW:<label> target.
C10_Witness ==
  /\ pc = "done"
  /\ \E h \in DOMAIN finalMapping :
       /\ IsNew(mappingResult[1].mapping[h].mappedTo)
       /\ finalMapping[h].mappedTo \in CreatedFields
       /\ \E id \in DOMAIN dbContacts : finalMapping[h].mappedTo \in DOMAIN dbContacts[id]

\* A step of phase 1 in which addDoc(collection(db,'contactFields'), ...) threw.
MaterializationFailure == pc = "fields" /\ faults' = faults + 1

\* The run ended in phase 1: a field of the mapping was never created.
FailedInMaterialization ==
  /\ pc = "failed"
  /\ variant = "popup"
  /\ PendingNew(mappingResult[1].mapping, fieldPos) # {}

\* C11: when the creation of a new custom field fails, the run stops there:
\* no row is processed, no contact is created or updated, an error is set,
\* importing is false and importStats is not updated by the run.
C11_FatalMaterialization ==
  /\ [][MaterializationFailure =>
          /\ pc' = "failed"
          /\ error' # Null
          /\ ~importing'
          /\ importStats' = importStats
          /\ dbContacts' = dbContacts
          /\ dbContactFields' = dbContactFields
          /\ log' = <<>>
       ]_vars
  /\ [](FailedInMaterialization =>
          /\ dbContacts = contacts0
          /\ log = <<>>
          /\ idx = 1
          /\ importStats = ZeroStats
          /\ error # Null
          /\ ~importing
          /\ ~ENABLED ImportStep)

\* The second field creation of a run failed after the first had succeeded.
C11_Witness ==
  /\ FailedInMaterialization
  /\ newFieldsMap # EmptyDoc
  /\ Len(parsedData) = MaxRows
  /\ stats.total > 0 /\ importStats.total = 0

\* The popup rejected a row whose transformed record has an email or a phone.
RejectedWithIdentity ==
  \E i \in 1..Len(log) :
    /\ log[i].outcome = "rejected"
    /\ Truthy(log[i].contact, "email") \/ Truthy(log[i].contact, "phone")

\* C20 as stated: in ImportContactsPopup.tsx a row whose transformed record
\* has a non-blank email or a non-blank phone is never rejected by validation.
C20_Claim == variant = "popup" => ~RejectedWithIdentity

\* The handler invoked last changed a header's target: a choice other than
\* "Create New Custom Field" in the <select>, or a non-blank new-field label.
EffectiveEdit ==
  \/ /\ lastOp.op = "handleUpdateMapping"
     /\ ~(variant = "popup" /\ lastOp.arg = "__CREATE_NEW__")
  \/ /\ lastOp.op = "handleCreateNewField"
     /\ Trim(lastOp.arg) # ""

\* C12: after every reconciler edit (handleUpdateMapping, handleCreateNewField)
\* unmappedHeaders is exactly the set of headers whose entry has mappedTo =
\* 'unmapped'.
C12_UnmappedRecomputed ==
  EffectiveEdit =>
    /\ mappingResult # Null
    /\ mappingResult[1].unmappedHeaders =
         {h \in DOMAIN mappingResult[1].mapping :
            mappingResult[1].mapping[h].mappedTo = "unmapped"}

\* An edit repaired the unmappedHeaders list of a classifier response that
\* did not agree with its own mapping.
C12_Witness ==
  /\ EffectiveEdit
  /\ proposal[1].unmappedHeaders = {"first"}
  /\ proposal[1].mapping["first"].mappedTo = "firstName"
  /\ "first" \notin mappingResult[1].unmappedHeaders
  /\ mappingResult[1].unmappedHeaders # {}

CreateNewFieldStep == lastOp'.op = "handleCreateNewField" /\ lastOp' # lastOp

C15_Claim ==
  (lastOp.op = "resetHeader" /\ lastOp.header \in DOMAIN proposal[1].mapping)
    => mappingResult[1].mapping[lastOp.header] = proposal[1].mapping[lastOp.header]

ReconcilerOps ==
  {"handleUpdateMapping", "handleCreateNewField", "cancelNewField", "resetHeader",
   "handleResetToDefault"}

\* C16 as stated: no reconciler operation (changing a target, proposing a
\* new field, resetting) calls the classifier or reads or writes the store.
C16_Claim ==
  lastOp.op \in ReconcilerOps =>
    /\ ~lastOp.fetched
    /\ dbContacts = contacts0
    /\ dbContactFields = fields0

\* C17 as stated: a mapping result stored by the mapping step has exactly one
\* entry per header of the file.
C17_Claim ==
  (proposal # Null /\ Len(parsedData) > 0)
    => DOMAIN proposal[1].mapping = DOMAIN parsedData[1]

\* C18 as stated: in a mapping result stored by the mapping step every
\* confidence lies in [0,1] (0..100 percent) and every entry with a
\* confidence below 0.5 has the target 'unmapped'.
C18_Claim ==
  proposal # Null =>
    \A h \in DOMAIN proposal[1].mapping :
      LET e == proposal[1].mapping[h]
      IN /\ e.confidence \in 0..100
         /\ e.confidence < 50 => e.mappedTo = "unmapped"

\* The classifier request of the last file selection failed.
MappingFailed ==
  /\ lastOp.op = "handleFileSelect"
  /\ error \in {Some(message) : message \in ClassifierFailures}

ZeroAttributeCase ==
  /\ pc = "row"
  /\ mapRowToContact(parsedData[idx], finalMapping, usersByEmail, variant) = EmptyDoc

\* C22 as stated: a row that maps to zero usable attributes is silently
\* skipped; it increments none of created, merged, errors and writes nothing.
C22_Original ==
  [][ZeroAttributeCase =>
       /\ stats'.created = stats.created
       /\ stats'.merged = stats.merged
       /\ stats'.errors = stats.errors
       /\ dbContacts' = dbContacts
    ]_vars

\* C22 (amended): a row that maps to zero attributes is not skipped silently:
\* it fails the validation of the row, increments errors by one and neither
\* created nor merged, issues no lookup and produces no write.
C22_EmptyRowCounted ==
  [][ZeroAttributeCase =>
       /\ stats'.errors = stats.errors + 1
       /\ stats'.created = stats.created
       /\ stats'.merged = stats.merged
       /\ storeVars' = storeVars
       /\ pc' \in {"row", "done"}
       /\ log' = Append(log, [outcome |-> "rejected", id |-> NoContact,
                              issued |-> <<>>, threw |-> FALSE, contact |-> EmptyDoc])
    ]_vars

\* A finished run counted a row with no attribute as an error and left the
\* store as it was.
C22_Witness ==
  /\ pc = "done"
  /\ \E i \in 1..Len(log) : log[i].contact = EmptyDoc /\ log[i].outcome = "rejected"
  /\ importStats.errors >= 1
  /\ dbContacts = contacts0

\* C23 as stated: a row whose deduplication lookup threw counts as an error
\* and is never written, in particular never created as a new record.
C23_Claim ==
  \A i \in 1..Len(log) :
    log[i].threw => log[i].outcome \notin {"created", "merged"}

\* C24 as stated: in every import run two rows carrying the same email never
\* both resolve to "no existing match" and both create a record.
C24_Claim ==
  \A i, j \in 1..Len(log) :
    (/\ i < j
     /\ Truthy(log[i].contact, "email") /\ Truthy(log[j].contact, "email")
     /\ log[i].contact["email"] = log[j].contact["email"])
      => ~(log[i].outcome = "created" /\ log[j].outcome = "created")

\* The same, for runs in which no lookup threw (the later row's lookup then
\* sees the earlier row's write).
SerializedWithoutLookupFailure ==
  (\A i \in 1..Len(log) : ~log[i].threw) => C24_Claim

\* No two records of the store carry the same value of attribute k.
UniqueBy(db, k) ==
  \A a, b \in DOMAIN db :
    (a # b /\ Truthy(db[a], k) /\ Truthy(db[b], k)) => db[a][k] # db[b][k]

\* No deduplication lookup of the run has thrown.
NoLookupFailure == ~lookupThrew /\ \A i \in 1..Len(log) : ~log[i].threw

\* C26: a single sequential import in which no deduplication lookup fails,
\* started on a store in which no two records share an email, never leaves
\* two records sharing an email.
C26_EmailUniqueness ==
  (pc # "idle" /\ UniqueBy(contacts0, "email") /\ NoLookupFailure)
    => UniqueBy(dbContacts, "email")

\* A finished run created a record and, by a phone match, installed a new
\* email in an existing record, and the emails are still unique.
C26_Witness ==
  /\ pc = "done" /\ NoLookupFailure
  /\ contacts0 # EmptyDoc /\ UniqueBy(contacts0, "email")
  /\ \E i \in 1..Len(log) :
       /\ log[i].outcome = "merged"
       /\ log[i].issued = <<"email", "phone">>
       /\ contacts0[log[i].id]["email"] # log[i].contact["email"]
       /\ dbContacts[log[i].id]["email"] = log[i].contact["email"]
  /\ UniqueBy(dbContacts, "email")

\* C27 as stated: a single sequential import in which no deduplication lookup
\* fails, started on a store in which no two records share a phone, never
\* leaves two records sharing a phone.
C27_Original ==
  (pc # "idle" /\ UniqueBy(contacts0, "phone") /\ NoLookupFailure)
    => UniqueBy(dbContacts, "phone")

\* Row i was merged by its email into record id and carried phone p.
MergedByEmail(i, id, p) ==
  /\ log[i].outcome = "merged"
  /\ log[i].issued = <<"email">>
  /\ log[i].id = id
  /\ Truthy(log[i].contact, "phone")
  /\ log[i].contact["phone"] = p

\* C27 (amended): in such a run rows that are created or merged by a phone
\* match keep the phones unique; two records share a phone only when a row
\* carrying that phone was merged by its email into one of them (the merge
\* overwrites the record's phone without looking the phone up).
C27_PhoneSharedOnlyByEmailMerge ==
  (pc # "idle" /\ UniqueBy(contacts0, "phone") /\ NoLookupFailure) =>
    \A a, b \in DOMAIN dbContacts :
      (a # b /\ Truthy(dbContacts[a], "phone") /\ Truthy(dbContacts[b], "phone")
         /\ dbContacts[a]["phone"] = dbContacts[b]["phone"])
        => \E i \in 1..Len(log) :
             \/ MergedByEmail(i, a, dbContacts[a]["phone"])
             \/ MergedByEmail(i, b, dbContacts[a]["phone"])

\* A finished run without lookup failure left two records sharing a phone,
\* on a store whose phones were unique.
C27_Witness ==
  /\ pc = "done" /\ NoLookupFailure
  /\ UniqueBy(contacts0, "phone")
  /\ ~UniqueBy(dbContacts, "phone")

Count(o) == Cardinality({i \in 1..Len(log) : log[i].outcome = o})

\* C29: in a single import run created is the number of contact records the
\* run added, merged the number of successful updates of existing records,
\* the number of contact records is its initial value plus created, and no
\* contact record or custom field is ever deleted.
C29_StatsMatchStore ==
  /\ [](pc # "idle" =>
          /\ stats.created = Count("created")
          /\ stats.merged = Count("merged")
          /\ Cardinality(DOMAIN dbContacts) = Cardinality(DOMAIN contacts0) + stats.created
          /\ (DOMAIN dbContacts) \ (DOMAIN contacts0)
               = {log[i].id : i \in {j \in 1..Len(log) : log[j].outcome = "created"}}
          /\ \A i \in 1..Len(log) :
               log[i].outcome = "merged" => log[i].id \in DOMAIN contacts0 \cup
                 {log[j].id : j \in {k \in 1..(i - 1) : log[k].outcome = "created"}}
          /\ pc = "done" => importStats = stats)
  /\ [][/\ DOMAIN dbContacts \subseteq DOMAIN dbContacts'
        /\ DOMAIN dbContactFields \subseteq DOMAIN dbContactFields'
        /\ (pc # "idle" /\ stats'.merged = stats.merged + 1) <=>
             (/\ pc = "write" /\ existing \in DOMAIN dbContacts /\ faults' = faults
              /\ dbContacts' = UpdateDoc(dbContacts, existing, mappedContact))
        /\ (pc # "idle" /\ stats'.created = stats.created + 1) <=>
             (/\ pc = "write" /\ existing = NoContact /\ faults' = faults
              /\ \E id \in (DOMAIN dbContacts') \ (DOMAIN dbContacts) :
                   dbContacts' = AddDoc(dbContacts, id, mappedContact))
       ]_vars

\* A finished run that created a record, updated one and failed on a write.
C29_Witness ==
  /\ pc = "done"
  /\ importStats.created + importStats.merged + importStats.errors = importStats.total
  /\ importStats.created >= 1
  /\ \/ importStats.merged >= 1
     \/ \E i \in 1..Len(log) : log[i].outcome = "failed"
  /\ Cardinality(DOMAIN dbContacts) = Cardinality(DOMAIN contacts0) + importStats.created

\* ------------------------------------------------ the row loop in batches
\* Batch sizes the row loop is run with: every size up to one batch holding
\* all rows, and the size of the code.
ChunkSizes == (1..(MaxRows + 1)) \cup {batchSize}

\* Rows of the files imported in batches: two valid rows with the same email
\* and a row without identity.
ChunkRows == {r \in RowPool : r.first \in {"Ann", "Cy", "Dee"}}

ChunkFiles == SeqsUpTo(ChunkRows, MaxRows)

ChunkInit == InitWith(ChunkSizes)

\* The classifier proposes existing fields only (no field is materialized).
ChunkProposals(v) ==
  {p \in Proposals(v) :
     \A h \in DOMAIN p.mapping : ~StartsWith(p.mapping[h].mappedTo, "NEW:")}

handleFileSelectChunks ==
  /\ step = 1
  /\ FileSelect(ChunkFiles, ChunkProposals(variant))

ChunkNext ==
  \/ handleFileSelectChunks
  \/ NextFromReview
  \/ PreviousFromMapping
  \/ handleImport
  \/ LoadUsers
  \/ TransformRow
  \/ LookupRow
  \/ WriteRow

\* The import run with the row loop cut into batches of any size.
ChunkSpec == ChunkInit /\ [][ChunkNext]_vars

\* The query that threw in the lookup of a logged row, or "none".
FaultOf(e) == IF e.threw THEN e.issued[Len(e.issued)] ELSE "none"

RECURSIVE Baseline(_, _, _)
\* The import as one batch holding all rows: rows i.. of parsedData processed
\* in file order on store db, the environment (which query or write throws,
\* which id the store gives a new document) behaving as the log records.
Baseline(i, db, st) ==
  IF i > Len(parsedData)
  THEN [db |-> db, stats |-> st]
  ELSE LET mc == mapRowToContact(parsedData[i], finalMapping, usersByEmail, variant)
           r == findExistingContact(mc, db, FaultOf(log[i]))
       IN IF ~Valid(mc, variant) \/ log[i].outcome = "failed"
          THEN Baseline(i + 1, db, Bump(st, "errors"))
          ELSE IF r.id # NoContact
          THEN Baseline(i + 1, UpdateDoc(db, r.id, mc), Bump(st, "merged"))
          ELSE Baseline(i + 1, AddDoc(db, log[i].id, mc), Bump(st, "created"))

\* C21: the batch size has no effect: with any batch size (1, 2, ..., one
\* batch holding all rows, 100) the finished run has processed every row once
\* in file order and ends with the contacts store and the ImportStats of the
\* import run as a single batch under the same store behaviour.
C21_ChunkSizeIrrelevant ==
  pc = "done" =>
    /\ RowsInOrder(parsedData, chunkSize) = RowsInOrder(parsedData, batchSize)
    /\ Len(log) = Len(parsedData)
    /\ Baseline(1, contacts0, [ZeroStats EXCEPT !.total = Len(parsedData)])
         = [db |-> dbContacts, stats |-> importStats]

\* A finished run whose rows were spread over several batches created a
\* record and merged a later row into it.
C21_Witness ==
  /\ pc = "done"
  /\ chunkSize < Len(parsedData)
  /\ Len(Batches(parsedData, chunkSize, 0)) > 1
  /\ \E i, j \in 1..Len(log) :
       /\ i < j
       /\ log[i].outcome = "created"
       /\ log[j].outcome = "merged"
       /\ log[j].id = log[i].id
  /\ Baseline(1, contacts0, [ZeroStats EXCEPT !.total = Len(parsedData)])
       = [db |-> dbContacts, stats |-> importStats]

\* ------------------------------------------------ the import run again
\* Footer of the popup, step 3 when no import is running: "Previous" goes
\* back to step 2 (setStep(2)); mappingResult and parsedData are kept.
PreviousFromImport ==
  /\ variant = "popup"
  /\ step = 3
  /\ ~importing
  /\ Len(previousRuns) < MaxReruns
  /\ step' = 2
  /\ previousRuns' = Append(previousRuns, [pc |-> pc, faults |-> faults,
                                           stats |-> importStats,
                                           contacts |-> dbContacts,
                                           fields |-> dbContactFields])
  /\ lastOp' = Op("previous", "", "", FALSE)
  /\ UNCHANGED << variant, storeVars, subStep, error, parsedData, mappingResult,
                  importStats, importing, pc, stats, newFieldsMap, fieldPos,
                  finalMapping, usersByEmail, idx, mappedContact, existing, issued,
                  lookupThrew, faults, contacts0, fields0, log, contactFields,
                  showNewFieldInput, proposal, chunkSize, peer >>

\* Classifier responses of the popup with at most one NEW:<label> target.
RerunProposals ==
  { [mapping |-> CoreMapping(Entry("NEW:Company", 70), Entry("unmapped", 30)),
     unmappedHeaders |-> {"org"}, notes |-> "n"],
    [mapping |-> CoreMapping(Entry("f1", 75), Entry("unmapped", 30)),
     unmappedHeaders |-> {"org"}, notes |-> "n"] }

RerunFiles == SeqsUpTo({r \in RowPool : r.first \in {"Ann", "Dee"}}, MaxRows)

\* The popup wizard.
RerunInit == Init /\ variant = "popup"

handleFileSelectRerun ==
  /\ step = 1
  /\ FileSelect(RerunFiles, RerunProposals)

RerunNext ==
  \/ handleFileSelectRerun
  \/ NextFromReview
  \/ PreviousFromMapping
  \/ handleImport
  \/ CreateNewField
  \/ LoadUsers
  \/ TransformRow
  \/ LookupRow
  \/ WriteRow
  \/ PreviousFromImport

\* The popup wizard with its way back from step 3 to step 2.
RerunSpec == RerunInit /\ [][RerunNext]_vars

\* The import has been executed again after a completed run, and no store
\* operation threw in either run.
CleanRerunDone ==
  /\ previousRuns # <<>>
  /\ previousRuns[Len(previousRuns)].pc = "done"
  /\ previousRuns[Len(previousRuns)].faults = 0
  /\ step = 3
  /\ pc = "done" /\ faults = 0
  /\ contacts0 = previousRuns[Len(previousRuns)].contacts

\* C28 as stated: an import executed again from the wizard (step 3, Previous,
\* Next) with the same rows and mapping and all store operations succeeding
\* reports created = 0, creates no contactFields document and leaves the
\* contacts store as the first run left it.
C28_Claim ==
  CleanRerunDone =>
    /\ importStats.created = 0
    /\ dbContactFields = fields0
    /\ dbContacts = contacts0

\* The same for mappings without a NEW:<label> target.
RerunIdempotentWithoutNewField ==
  (CleanRerunDone /\ \A h \in DOMAIN mappingResult[1].mapping :
                       ~StartsWith(mappingResult[1].mapping[h].mappedTo, "NEW:"))
    => /\ importStats.created = 0
       /\ dbContactFields = fields0
       /\ dbContacts = contacts0

\* The second run creates no contact.
RerunCreatesNoContact == CleanRerunDone => importStats.created = 0

\* ------------------------------------------- two imports on the same store
\* Everything but the contacts collection and the other wizard's import.
wizardVars ==
  << variant, dbContactFields, dbUsers, step, subStep, error, parsedData,
     mappingResult, importStats, importing, pc, stats, newFieldsMap, fieldPos,
     finalMapping, usersByEmail, idx, mappedContact, existing, issued, lookupThrew,
     faults, contacts0, fields0, log, contactFields, showNewFieldInput, proposal,
     lastOp, chunkSize, previousRuns >>

\* The mapping the other wizard imports with.
PeerMapping == CoreMapping(Entry("f1", 75), Entry("unmapped", 30))

\* Two valid rows with the same email.
RaceRows == {r \in RowPool : r.first \in {"Ann", "Cy"}}

RaceFiles == {<<r>> : r \in RaceRows}

\* End of one iteration of the other wizard's row loop.
PeerAdvance(p, outcome, id) ==
  [p EXCEPT !.log = Append(@, [outcome |-> outcome, id |-> id,
                               contact |-> p.mappedContact]),
            !.idx = @ + 1,
            !.pc = IF p.idx = Len(p.rows) THEN "done" ELSE "row"]

\* The other wizard's handleImport enters its row loop.
PeerStart ==
  /\ peer.pc = "idle"
  /\ \E file \in RaceFiles : peer' = [NoPeer EXCEPT !.pc = "row", !.rows = file]
  /\ UNCHANGED << dbContacts, wizardVars >>

\* The other wizard's row loop: mapRowToContact and the validation of the row.
PeerTransformRow ==
  /\ peer.pc = "row"
  /\ LET mc == mapRowToContact(peer.rows[peer.idx], PeerMapping,
                               UsersByEmail(dbUsers), variant)
     IN peer' = IF Valid(mc, variant)
                THEN [peer EXCEPT !.mappedContact = mc, !.existing = NoContact,
                                  !.pc = "lookup"]
                ELSE PeerAdvance([peer EXCEPT !.mappedContact = mc], "rejected", NoContact)
  /\ UNCHANGED << dbContacts, wizardVars >>

\* The other wizard's row loop: await findExistingContact(mappedContact).
PeerLookupRow ==
  /\ peer.pc = "lookup"
  /\ peer' = [peer EXCEPT
                !.existing = findExistingContact(peer.mappedContact, dbContacts, "none").id,
                !.pc = "write"]
  /\ UNCHANGED << dbContacts, wizardVars >>

\* The other wizard's row loop: the write of the row.
PeerWriteRow ==
  /\ peer.pc = "write"
  /\ \/ /\ peer.existing # NoContact
        /\ dbContacts' = UpdateDoc(dbContacts, peer.existing, peer.mappedContact)
        /\ peer' = PeerAdvance(peer, "merged", peer.existing)
     \/ /\ peer.existing = NoContact
        /\ \E id \in ContactIds \ DOMAIN dbContacts :
             /\ dbContacts' = AddDoc(dbContacts, id, peer.mappedContact)
             /\ peer' = PeerAdvance(peer, "created", id)
  /\ UNCHANGED wizardVars

handleFileSelectRace ==
  /\ step = 1
  /\ FileSelect(RaceFiles, Proposals(variant))

RaceNext ==
  \/ handleFileSelectRace
  \/ NextFromReview
  \/ PreviousFromMapping
  \/ handleImport
  \/ CreateNewField
  \/ LoadUsers
  \/ TransformRow
  \/ LookupRow
  \/ WriteRow
  \/ PeerStart
  \/ PeerTransformRow
  \/ PeerLookupRow
  \/ PeerWriteRow

\* Two wizards importing into the same store, every store operation atomic.
RaceSpec == Init /\ [][RaceNext]_vars

\* This wizard is about to write a row whose lookup found no match, and a
\* record with the row's email has appeared in the store since.
StaleMiss ==
  /\ pc = "write"
  /\ existing = NoContact /\ ~lookupThrew
  /\ Truthy(mappedContact, "email")
  /\ Query(dbContacts, "email", mappedContact["email"]) # {}

PeerStaleMiss ==
  /\ peer.pc = "write"
  /\ peer.existing = NoContact
  /\ Truthy(peer.mappedContact, "email")
  /\ Query(dbContacts, "email", peer.mappedContact["email"]) # {}

\* C25: with two imports running against the same store, each create/update
\* atomic, the lookup and the write of a row are not one step: a run whose
\* lookup found no match creates its record even when the other run has
\* created a record with the same email in between, and the store then holds
\* two records with that email.
C25_LookupThenWriteNotAtomic ==
  [][/\ (StaleMiss /\ pc' # "write" /\ faults' = faults) =>
          /\ stats'.created = stats.created + 1
          /\ Cardinality(DOMAIN dbContacts') = Cardinality(DOMAIN dbContacts) + 1
          /\ Cardinality(Query(dbContacts', "email", mappedContact["email"])) >= 2
     /\ (PeerStaleMiss /\ peer'.pc # "write") =>
          /\ peer'.log[Len(peer'.log)].outcome = "created"
          /\ Cardinality(DOMAIN dbContacts') = Cardinality(DOMAIN dbContacts) + 1
          /\ Cardinality(Query(dbContacts', "email", peer.mappedContact["email"])) >= 2
    ]_vars

\* Both runs have ended; both looked up the same email, found no match and
\* created a record: the store, which held no record with that email, holds two.
C25_Witness ==
  /\ pc = "done" /\ peer.pc = "done" /\ faults = 0
  /\ \E i \in 1..Len(log), j \in 1..Len(peer.log) :
       /\ log[i].outcome = "created" /\ ~log[i].threw
       /\ peer.log[j].outcome = "created"
       /\ log[i].contact["email"] = peer.log[j].contact["email"]
       /\ Query(contacts0, "email", log[i].contact["email"]) = {}
       /\ {log[i].id, peer.log[j].id} \subseteq
            Query(dbContacts, "email", log[i].contact["email"])
       /\ log[i].id # peer.log[j].id

\* ------------------------------------------------ the guard of handleImport
\* handleFileSelect when the body of the classifier's response is the JSON
\* value null: response.json() is null and is stored as mappingResult.
handleFileSelectNullResponse ==
  /\ pc = "idle"
  /\ step = 1
  /\ variant = "popup" => subStep = "upload"
  /\ \E fileData \in EditFiles :
       /\ Len(fileData) > 0
       /\ parsedData' = fileData
  /\ contactFields' = dbContactFields
  /\ mappingResult' = Null
  /\ proposal' = Null
  /\ error' = Null
  /\ lastOp' = Op("handleFileSelect", "", "", TRUE)
  /\ IF variant = "popup"
     THEN subStep' = "review" /\ step' = step
     ELSE step' = 2 /\ subStep' = subStep
  /\ UNCHANGED << variant, storeVars, importStats, importing, runVars,
                  showNewFieldInput >>

\* The "Next" button of step 2 when handleImport returns at its guard
\* (if (!mappingResult || parsedData.length === 0) return).
handleImportRefused ==
  /\ step = 2
  /\ pc \in {"idle", "done", "failed"}
  /\ mappingResult = Null \/ Len(parsedData) = 0
  /\ lastOp' = Op("handleImport", "", "", FALSE)
  /\ UNCHANGED << variant, storeVars, step, subStep, error, parsedData, mappingResult,
                  importStats, importing, runVars, contactFields, proposal,
                  showNewFieldInput >>

GuardNext ==
  \/ EditNext
  \/ handleFileSelectNullResponse
  \/ handleImportRefused

\* The wizard from its opening to the start of the import, the classifier
\* answering with any JSON value.
GuardSpec == Init /\ [][GuardNext]_vars

\* handleImport reads and writes nothing and stays where it is when
\* mappingResult is null or there is no parsed row; step 3 is entered from
\* step 2 only, with a mapping and rows.
GuardOfImport ==
  /\ [](step = 3 => mappingResult # Null /\ Len(parsedData) > 0)
  /\ [][/\ (lastOp'.op = "handleImport" /\ (mappingResult = Null \/ Len(parsedData) = 0))
            => (storeVars' = storeVars /\ step' = step /\ pc' = pc
                  /\ importing' = importing)
        /\ step' = 3 => step \in {2, 3}
       ]_vars

\* C30 as stated: in every reachable wizard state step = 2 or step = 3
\* implies a non-null mappingResult; handleImport reads and writes nothing and
\* does not enter step 3 when mappingResult is null or there is no parsed row;
\* step 3 is entered from step 2 only.
C30_Claim ==
  /\ []((step = 2 \/ step = 3) => mappingResult # Null)
  /\ GuardOfImport

\* handleImport was invoked at step 2 without a mapping and returned.
ImportRefusedAtStep2 ==
  /\ step = 2 /\ mappingResult = Null
  /\ lastOp.op = "handleImport"
  /\ pc = "idle" /\ ~importing

====
